---- MODULE Spec2Model ----
(***************************************************************************)
(* Model of pallets/subtensor/src/networks.rs: the subnetwork registry     *)
(* (creation, removal with refund, ownership transfer, connection          *)
(* requirements, emission values), the registration burn cost and the      *)
(* choice of the subnetwork to prune; and of                               *)
(* pallets/subtensor/src/delegate_info.rs: the delegate queries.           *)
(*                                                                         *)
(* A storage map is a function from its key to an option: <<>> when the    *)
(* key holds no entry, <<v>> when it holds v.  Reading a ValueQuery map    *)
(* at a key without entry gives the map's default.                         *)
(***************************************************************************)
EXTENDS Integers, Sequences, FiniteSets, TLC

\* ------------------------------------------------------------------ bounds

\* netuids 0..MaxNetuid stand for the u16 identifiers
MaxNetuid == 1

\* largest value of the (scaled-down) u64 type
U64Max == 3

\* length of the longest list handed to do_set_emission_values
MaxListLen == 2

\* the (scaled-down) global per-block emission, get_block_emission()
BlockEmission == 1

\* balance every coldkey holds in the initial state
InitialBalance == 1

\* neurons registered on one subnetwork at most
MaxNeurons == 1

\* value at which the model stops incrementing TotalNetworks
MaxTotalNetworks == 3

\* largest value of the u64 of the burn cost arithmetic, which works on values
\* above 8 * DAYS and is scaled down less than the other u64 quantities
PriceMax == 1048575

\* block at which the model stops advancing the block number
MaxBlock == 172801

\* ------------------------------------------------------------------ domains

\* const DAYS: the blocks of a day
DAYS == 7200

Netuids == 0..MaxNetuid

\* u16::MAX, the tempo if_tempo_is_valid rejects
U16Max == 65535

\* The balance type of the runtime is narrower than u64 by one value, so that
\* u64_to_balance can fail, as the guard in remove_network provides for.
BalanceMax == U64Max - 1

Coldkeys == {"ck1", "ck2"}

\* The default AccountId, the value of SubnetOwner at a key without entry.
DefaultAccount == "default"

Accounts == Coldkeys \cup {DefaultAccount}

\* RuntimeOrigin: Root, or Signed(coldkey) written as the coldkey.
Origins == {"Root"} \cup Coldkeys

\* The origins tried on the extrinsics that only tell Root from the others.
SudoOrigins == {"Root", "ck1"}

TempoInputs == {0, 100, U16Max}

ModalityInputs == 0..3

RequirementInputs == {1}

EmissionInputs == {0, BlockEmission, U64Max}

LockInputs == 1..U64Max

None == <<>>

Some(v) == <<v>>

\* ValueQuery read: the entry, or the default when the key holds none.
Get(map, key, default) == IF map[key] = None THEN default ELSE map[key][1]

\* Lists of length 0..n over S
RECURSIVE Lists(_, _)
Lists(S, n) ==
    IF n = 0 THEN {<<>>}
    ELSE LET shorter == Lists(S, n - 1) IN
         shorter \cup {Append(l, x) : l \in {s \in shorter : Len(s) = n - 1}, x \in S}

\* The scalar hyperparameters set_default_values_for_all_parameters writes
\* (Tempo and EmissionValues, also written there, are variables of their own).
DefaultedParams ==
    {"Kappa", "Difficulty", "MaxAllowedUids", "ImmunityPeriod", "ActivityCutoff",
     "MaxWeightsLimit", "MinAllowedWeights", "RegistrationsThisInterval",
     "POWRegistrationsThisInterval", "BurnRegistrationsThisInterval"}

\* The scalar hyperparameters the setters called by init_new_network_ex write.
ExParams ==
    {"ServingRateLimit", "WeightsSetRateLimit", "WeightsVersionKey",
     "MinAllowedWeights", "MaxWeightsLimit", "MinBurn", "MaxBurn",
     "BondsMovingAverage", "MaxAllowedValidators", "MaxAllowedUids",
     "AdjustmentInterval", "AdjustmentAlpha", "TargetRegistrationsPerInterval",
     "MaxRegistrationsPerBlock", "ActivityCutoff", "Rho", "Kappa",
     "ValidatorPruneLen", "ScalingLawPower", "ImmunityPeriod",
     "NetworkRegistrationAllowed"}

\* an erasure that forgets Kappa
ErasedParamsKappaKept ==
    {"Difficulty", "MaxAllowedUids", "ImmunityPeriod", "ActivityCutoff",
     "MaxWeightsLimit", "MinAllowedWeights", "RegistrationsThisInterval",
     "POWRegistrationsThisInterval", "BurnRegistrationsThisInterval"}

\* The scalar hyperparameters erase_all_network_data removes (besides Tempo
\* and EmissionValues).
ErasedParams ==
    {"Kappa", "Difficulty", "MaxAllowedUids", "ImmunityPeriod", "ActivityCutoff",
     "MaxWeightsLimit", "MinAllowedWeights", "RegistrationsThisInterval",
     "POWRegistrationsThisInterval", "BurnRegistrationsThisInterval"}

ParamNames == DefaultedParams \cup ExParams

\* A hyperparameter's value: its configured default, or another value.
ParamValues == {"default", "custom"}

\* The per-netuid derived tables: the double maps cleared by prefix and the
\* per-netuid vectors.
PrefixTables == {"Uids", "Keys", "Bonds", "Weights"}

VectorTables ==
    {"Rank", "Trust", "Active", "Emission", "Incentive", "Consensus",
     "Dividends", "PruningScores", "LastUpdate", "ValidatorPermit",
     "ValidatorTrust"}

TableNames == PrefixTables \cup VectorTables

\* ------------------------------------------------------------------ state

VARIABLES
    NetworksAdded,        \* netuid -> option of bool
    TotalNetworks,        \* u16
    SubnetworkN,          \* netuid -> option of neuron count
    Tempo,                \* netuid -> option of u16
    NetworkModality,      \* netuid -> option of u16
    EmissionValues,       \* netuid -> option of u64
    Params,               \* hyperparameter -> netuid -> option of value
    Tables,               \* derived table -> set of netuids with entries
    NetworkConnect,       \* <<netuid_a, netuid_b>> -> option of requirement
    SubnetOwner,          \* netuid -> option of account
    SubnetLocked,         \* netuid -> u64
    NetworkRegisteredAt,  \* netuid -> option of block
    balances,             \* account -> free balance
    current_block,        \* the block number
    events,               \* the events the latest call deposited
    lastCall,             \* the latest call and what it returned
    history,              \* the stores before a creation that a removal follows
    NetworkLastBurnCost,  \* u64, the burn of the latest subnet registration
    NetworkMinBurnCost,   \* u64, the floor of the burn cost
    NetworkLastRegistered, \* u64, the block of the latest subnet registration
    NetworkImmunityPeriod, \* u64, blocks a new subnetwork is spared from pruning
    Delegates,            \* hotkey -> option of take
    Stake,                \* <<hotkey, coldkey>> -> option of u64
    Owner,                \* hotkey -> option of coldkey
    Neurons,              \* <<netuid, hotkey>> -> option of [permit, emission]
    burn_costs,           \* what the latest two burn cost queries returned
    pruned,               \* what the latest get_subnet_to_prune returned
    delegate_reply,       \* the latest delegate query and what it returned
    snapshot_run,         \* a snapshot in progress: its position and its locals
    ledger_seen           \* what the ledger held while the snapshot was in progress

stores ==
    <<NetworksAdded, TotalNetworks, SubnetworkN, Tempo, NetworkModality,
      EmissionValues, Params, Tables, NetworkConnect, SubnetOwner, SubnetLocked,
      NetworkRegisteredAt, balances, current_block>>

\* the process-wide pricing and pruning state
pricing ==
    <<NetworkLastBurnCost, NetworkMinBurnCost, NetworkLastRegistered,
      NetworkImmunityPeriod>>

\* the stake ledger the delegate queries read
ledger == <<Delegates, Stake, Owner, Neurons>>

\* what the read-only queries returned
replies == <<burn_costs, pruned, delegate_reply, snapshot_run, ledger_seen>>

vars == <<stores, events, lastCall, history, pricing, ledger, replies>>

Edges == Netuids \X Netuids

NoHistory == [phase |-> "none", netuid |-> 0, stores |-> <<>>]

\* The hotkeys the delegate queries are about.
Hotkeys == {"hk1", "hk2"}

StakeKeys == Hotkeys \X Coldkeys

\* The keys of the neuron slots: a subnetwork and a hotkey registered on it.
NeuronKeys == Netuids \X Hotkeys

NoReply == [query |-> "none"]

\* No snapshot is in progress.
NoRun == [pc |-> "idle"]

\* Nothing has been recorded of the ledger, and nothing has changed it.
NoSeen == [values |-> {}, mutations |-> 0, during |-> 0]

\* The registry before any call.
InitRegistry ==
    /\ NetworksAdded = [n \in Netuids |-> None]
    /\ TotalNetworks = 0
    /\ SubnetworkN = [n \in Netuids |-> None]
    /\ Tempo = [n \in Netuids |-> None]
    /\ NetworkModality = [n \in Netuids |-> None]
    /\ EmissionValues = [n \in Netuids |-> None]
    /\ Params = [p \in ParamNames |-> [n \in Netuids |-> None]]
    /\ Tables = [t \in TableNames |-> {}]
    /\ NetworkConnect = [e \in Edges |-> None]
    /\ SubnetOwner = [n \in Netuids |-> None]
    /\ SubnetLocked = [n \in Netuids |-> 0]
    /\ NetworkRegisteredAt = [n \in Netuids |-> None]
    /\ balances = [a \in Accounts |-> IF a \in Coldkeys THEN InitialBalance ELSE 0]
    /\ events = <<>>
    /\ lastCall = [op |-> "none", result |-> "Ok"]
    /\ history = NoHistory

\* No subnet registration has been priced yet.
InitPricing ==
    /\ NetworkLastBurnCost = 0
    /\ NetworkMinBurnCost = 0
    /\ NetworkLastRegistered = 0
    /\ NetworkImmunityPeriod = 0

\* No hotkey is a delegate and no stake is recorded.
InitLedger ==
    /\ Delegates = [h \in Hotkeys |-> None]
    /\ Stake = [k \in StakeKeys |-> None]
    /\ Owner = [h \in Hotkeys |-> None]
    /\ Neurons = [k \in NeuronKeys |-> None]

\* No query has been answered.
InitReplies ==
    /\ burn_costs = <<>>
    /\ pruned = None
    /\ delegate_reply = NoReply
    /\ snapshot_run = NoRun
    /\ ledger_seen = NoSeen

Init ==
    /\ InitRegistry /\ InitPricing /\ InitLedger /\ InitReplies
    /\ current_block = 0

\* ------------------------------------------------------------------ helpers

if_subnet_exist(netuid) == Get(NetworksAdded, netuid, FALSE)

if_modality_is_valid(modality) == modality \in {0, 1, 2}

\* a tempo check that lets u16::MAX through
if_tempo_is_valid_inclusive(tempo) == tempo <= U16Max

if_tempo_is_valid(tempo) == tempo < U16Max

get_subnet_locked_balance(netuid) == SubnetLocked[netuid]

\* u64 -> Option<Balance>: try_into the balance type
u64_to_balance(amount) == IF amount <= BalanceMax THEN Some(amount) ELSE None

get_block_emission == BlockEmission

network_connection_requirement_exists(netuid_a, netuid_b) ==
    NetworkConnect[<<netuid_a, netuid_b>>] # None

\* a duplicate scan whose list of seen ids stays empty
has_duplicate_netuids_never(netuids) == FALSE

has_duplicate_netuids(netuids) ==
    \E i, j \in 1..Len(netuids) : i < j /\ netuids[i] = netuids[j]

contains_invalid_netuids(netuids) ==
    \E i \in 1..Len(netuids) : ~if_subnet_exist(netuids[i])

RECURSIVE SumSeq(_)
SumSeq(s) == IF s = <<>> THEN 0 ELSE s[1] + SumSeq(Tail(s))

\* checked_sum::<u64>: None when a partial sum leaves the u64 range
checked_sum(emission) ==
    IF SumSeq(emission) > U64Max THEN None ELSE Some(SumSeq(emission))

\* A call that returns Err(err): nothing is written, nothing is deposited.
Fail(op, err) ==
    /\ lastCall' = [op |-> op, result |-> err]
    /\ events' = <<>>
    /\ UNCHANGED stores

\* A call that returns Ok after depositing event ev.
Done(op, ev) ==
    /\ lastCall' = [op |-> op, result |-> "Ok"]
    /\ events' = <<ev>>


\* ------------------------------------------------------------------ storage defaults

\* Tempo's value at a key without entry
DefaultTempo == 99

\* EmissionValues' value at a key without entry
DefaultEmissionValues == 0

\* ------------------------------------------------------------------ registry internals

\* The maps Tempo (T), EmissionValues (E) and the scalar hyperparameters (P)
\* after `if !X::contains_key(netuid) { X::insert(netuid, X::get(netuid)) }`
\* for each X the function names.
set_default_values_for_all_parameters(netuid, T, E, P) ==
    [Tempo |->
        IF T[netuid] = None
        THEN [T EXCEPT ![netuid] = Some(Get(T, netuid, DefaultTempo))]
        ELSE T,
     EmissionValues |->
        IF E[netuid] = None
        THEN [E EXCEPT ![netuid] = Some(Get(E, netuid, DefaultEmissionValues))]
        ELSE E,
     Params |->
        [p \in ParamNames |->
            IF p \in DefaultedParams /\ P[p][netuid] = None
            THEN [P[p] EXCEPT ![netuid] = Some("default")]
            ELSE P[p]]]

\* TotalNetworks::mutate(|n| *n += 1) and (|n| *n -= 1), on a u16
increment_total_networks == (TotalNetworks + 1) % (U16Max + 1)

\* a removal that leaves the counter alone
decrement_total_networks_skipped == TotalNetworks

decrement_total_networks == (TotalNetworks - 1) % (U16Max + 1)

\* The stores init_new_network writes, as it leaves them.
init_new_network(netuid, tempo, modality) ==
    LET d == set_default_values_for_all_parameters(
                 netuid, [Tempo EXCEPT ![netuid] = Some(tempo)],
                 EmissionValues, Params)
    IN  [SubnetworkN     |-> [SubnetworkN EXCEPT ![netuid] = Some(0)],
         NetworksAdded   |-> [NetworksAdded EXCEPT ![netuid] = Some(TRUE)],
         Tempo           |-> d.Tempo,
         NetworkModality |-> [NetworkModality EXCEPT ![netuid] = Some(modality)],
         TotalNetworks   |-> increment_total_networks,
         EmissionValues  |-> d.EmissionValues,
         Params          |-> d.Params]

\* The stores init_new_network_ex writes: init_new_network, then one setter
\* per hyperparameter argument (args: hyperparameter -> value).
init_new_network_ex(netuid, tempo, modality, args) ==
    LET r == init_new_network(netuid, tempo, modality)
    IN  [r EXCEPT !.Params =
            [p \in ParamNames |->
                IF p \in ExParams
                THEN [r.Params[p] EXCEPT ![netuid] = Some(args[p])]
                ELSE r.Params[p]]]

\* Writes the stores of an initialisation; the other stores are left alone.
WriteInit(r) ==
    /\ SubnetworkN' = r.SubnetworkN
    /\ NetworksAdded' = r.NetworksAdded
    /\ Tempo' = r.Tempo
    /\ NetworkModality' = r.NetworkModality
    /\ TotalNetworks' = r.TotalNetworks
    /\ EmissionValues' = r.EmissionValues
    /\ Params' = r.Params
    /\ UNCHANGED <<Tables, NetworkConnect, SubnetOwner, SubnetLocked,
                   NetworkRegisteredAt, balances, current_block>>

\* The stores erase_all_network_data writes, as it leaves them.
erase_all_network_data(netuid) ==
    [Tables         |-> [t \in TableNames |-> Tables[t] \ {netuid}],
     Tempo          |-> [Tempo EXCEPT ![netuid] = None],
     EmissionValues |-> [EmissionValues EXCEPT ![netuid] = None],
     Params         |->
        [p \in ParamNames |->
            IF p \in ErasedParams THEN [Params[p] EXCEPT ![netuid] = None]
            ELSE Params[p]]]

add_balance_to_coldkey_account(coldkey, amount) ==
    [balances EXCEPT ![coldkey] = @ + amount]

\* a removal that reads the owner only after it removed the SubnetOwner entry
remove_network_late_read(netuid) ==
    LET owner_coldkey == Get(SubnetOwner, netuid, DefaultAccount)
        reserved_amount == get_subnet_locked_balance(netuid)
        reserved_amount_as_bal == u64_to_balance(reserved_amount)
        e == erase_all_network_data(netuid)
    IN  IF reserved_amount_as_bal = None
        THEN UNCHANGED stores
        ELSE /\ SubnetworkN' = [SubnetworkN EXCEPT ![netuid] = None]
             /\ NetworkModality' = [NetworkModality EXCEPT ![netuid] = None]
             /\ NetworksAdded' = [NetworksAdded EXCEPT ![netuid] = None]
             /\ Tables' = e.Tables
             /\ Tempo' = e.Tempo
             /\ EmissionValues' = e.EmissionValues
             /\ Params' = e.Params
             /\ TotalNetworks' = decrement_total_networks
             /\ NetworkRegisteredAt' = [NetworkRegisteredAt EXCEPT ![netuid] = None]
             /\ SubnetOwner' = [SubnetOwner EXCEPT ![netuid] = None]
             /\ SubnetLocked' = [SubnetLocked EXCEPT ![netuid] = 0]
             /\ balances' = add_balance_to_coldkey_account(
                                Get(SubnetOwner', netuid, DefaultAccount),
                                reserved_amount_as_bal[1])
             /\ UNCHANGED <<NetworkConnect, current_block>>

\* a removal that converts the locked balance only after it removed the
\* neuron count, the modality and the existence flag
remove_network_guard_late(netuid) ==
    LET owner_coldkey == Get(SubnetOwner, netuid, DefaultAccount)
        reserved_amount == get_subnet_locked_balance(netuid)
        reserved_amount_as_bal == u64_to_balance(reserved_amount)
        e == erase_all_network_data(netuid)
    IN  IF reserved_amount_as_bal = None
        THEN /\ SubnetworkN' = [SubnetworkN EXCEPT ![netuid] = None]
             /\ NetworkModality' = [NetworkModality EXCEPT ![netuid] = None]
             /\ NetworksAdded' = [NetworksAdded EXCEPT ![netuid] = None]
             /\ UNCHANGED <<TotalNetworks, Tempo, EmissionValues, Params, Tables,
                            NetworkConnect, SubnetOwner, SubnetLocked,
                            NetworkRegisteredAt, balances, current_block>>
        ELSE /\ SubnetworkN' = [SubnetworkN EXCEPT ![netuid] = None]
             /\ NetworkModality' = [NetworkModality EXCEPT ![netuid] = None]
             /\ NetworksAdded' = [NetworksAdded EXCEPT ![netuid] = None]
             /\ Tables' = e.Tables
             /\ Tempo' = e.Tempo
             /\ EmissionValues' = e.EmissionValues
             /\ Params' = e.Params
             /\ TotalNetworks' = decrement_total_networks
             /\ NetworkRegisteredAt' = [NetworkRegisteredAt EXCEPT ![netuid] = None]
             /\ SubnetOwner' = [SubnetOwner EXCEPT ![netuid] = None]
             /\ SubnetLocked' = [SubnetLocked EXCEPT ![netuid] = 0]
             /\ balances' = add_balance_to_coldkey_account(
                                owner_coldkey, reserved_amount_as_bal[1])
             /\ UNCHANGED <<NetworkConnect, current_block>>

remove_network(netuid) ==
    LET owner_coldkey == Get(SubnetOwner, netuid, DefaultAccount)
        reserved_amount == get_subnet_locked_balance(netuid)
        reserved_amount_as_bal == u64_to_balance(reserved_amount)
        e == erase_all_network_data(netuid)
    IN  IF reserved_amount_as_bal = None
        THEN UNCHANGED stores
        ELSE /\ SubnetworkN' = [SubnetworkN EXCEPT ![netuid] = None]
             /\ NetworkModality' = [NetworkModality EXCEPT ![netuid] = None]
             /\ NetworksAdded' = [NetworksAdded EXCEPT ![netuid] = None]
             /\ Tables' = e.Tables
             /\ Tempo' = e.Tempo
             /\ EmissionValues' = e.EmissionValues
             /\ Params' = e.Params
             /\ TotalNetworks' = decrement_total_networks
             /\ NetworkRegisteredAt' = [NetworkRegisteredAt EXCEPT ![netuid] = None]
             /\ SubnetOwner' = [SubnetOwner EXCEPT ![netuid] = None]
             /\ SubnetLocked' = [SubnetLocked EXCEPT ![netuid] = 0]
             /\ balances' = add_balance_to_coldkey_account(
                                owner_coldkey, reserved_amount_as_bal[1])
             /\ UNCHANGED <<NetworkConnect, current_block>>

add_connection_requirement(netuid_a, netuid_b, requirement) ==
    [NetworkConnect EXCEPT ![<<netuid_a, netuid_b>>] = Some(requirement)]

remove_connection_requirment(netuid_a, netuid_b) ==
    IF network_connection_requirement_exists(netuid_a, netuid_b)
    THEN [NetworkConnect EXCEPT ![<<netuid_a, netuid_b>>] = None]
    ELSE NetworkConnect

set_emission_for_network(E, netuid, emission) ==
    [E EXCEPT ![netuid] = Some(emission)]

\* EmissionValues after the loop of set_emission_values over the first i pairs
RECURSIVE set_emission_values_upto(_, _, _)
set_emission_values_upto(netuids, emission, i) ==
    IF i = 0 THEN EmissionValues
    ELSE set_emission_for_network(
             set_emission_values_upto(netuids, emission, i - 1),
             netuids[i], emission[i])

\* a loop that stops one pair short of the end of the lists
set_emission_values_last_skipped(netuids, emission) ==
    IF netuids = <<>> THEN EmissionValues
    ELSE set_emission_values_upto(netuids, emission, Len(netuids) - 1)

set_emission_values(netuids, emission) ==
    set_emission_values_upto(netuids, emission, Len(netuids))

\* ------------------------------------------------------------------ extrinsics

user_remove_network(origin, netuid) ==
    IF origin \notin Coldkeys THEN Fail("user_remove_network", "BadOrigin")
    ELSE IF ~if_subnet_exist(netuid)
    THEN Fail("user_remove_network", "NetworkDoesNotExist")
    ELSE IF Get(SubnetOwner, netuid, DefaultAccount) # origin
    THEN Fail("user_remove_network", "NotSubnetOwner")
    ELSE /\ remove_network(netuid)
         /\ Done("user_remove_network", <<"NetworkRemoved", netuid>>)

\* an ownership transfer that does not check the caller against the owner
network_transfer_ownership_unchecked(origin, netuid, dest) ==
    IF origin \notin Coldkeys THEN Fail("network_transfer_ownership", "BadOrigin")
    ELSE IF ~if_subnet_exist(netuid)
    THEN Fail("network_transfer_ownership", "NetworkDoesNotExist")
    ELSE /\ SubnetOwner' = [SubnetOwner EXCEPT ![netuid] = Some(dest)]
         /\ UNCHANGED <<NetworksAdded, TotalNetworks, SubnetworkN, Tempo,
                        NetworkModality, EmissionValues, Params, Tables,
                        NetworkConnect, SubnetLocked, NetworkRegisteredAt,
                        balances, current_block>>
         /\ Done("network_transfer_ownership",
                 <<"SubnetTransferred", netuid, origin, dest>>)

network_transfer_ownership(origin, netuid, dest) ==
    IF origin \notin Coldkeys THEN Fail("network_transfer_ownership", "BadOrigin")
    ELSE IF ~if_subnet_exist(netuid)
    THEN Fail("network_transfer_ownership", "NetworkDoesNotExist")
    ELSE IF Get(SubnetOwner, netuid, DefaultAccount) # origin
    THEN Fail("network_transfer_ownership", "NotSubnetOwner")
    ELSE /\ SubnetOwner' = [SubnetOwner EXCEPT ![netuid] = Some(dest)]
         /\ UNCHANGED <<NetworksAdded, TotalNetworks, SubnetworkN, Tempo,
                        NetworkModality, EmissionValues, Params, Tables,
                        NetworkConnect, SubnetLocked, NetworkRegisteredAt,
                        balances, current_block>>
         /\ Done("network_transfer_ownership",
                 <<"SubnetTransferred", netuid, origin, dest>>)

\* a creation that initialises the network before it checks the tempo
do_add_network_init_first(origin, netuid, tempo, modality) ==
    IF origin # "Root" THEN Fail("do_add_network", "BadOrigin")
    ELSE IF if_subnet_exist(netuid) THEN Fail("do_add_network", "NetworkExist")
    ELSE IF ~if_modality_is_valid(modality)
    THEN Fail("do_add_network", "InvalidModality")
    ELSE /\ WriteInit(init_new_network(netuid, tempo, modality))
         /\ IF ~if_tempo_is_valid(tempo)
            THEN /\ lastCall' = [op |-> "do_add_network", result |-> "InvalidTempo"]
                 /\ events' = <<>>
            ELSE Done("do_add_network", <<"NetworkAdded", netuid, modality>>)

do_add_network(origin, netuid, tempo, modality) ==
    IF origin # "Root" THEN Fail("do_add_network", "BadOrigin")
    ELSE IF if_subnet_exist(netuid) THEN Fail("do_add_network", "NetworkExist")
    ELSE IF ~if_modality_is_valid(modality)
    THEN Fail("do_add_network", "InvalidModality")
    ELSE IF ~if_tempo_is_valid(tempo) THEN Fail("do_add_network", "InvalidTempo")
    ELSE /\ WriteInit(init_new_network(netuid, tempo, modality))
         /\ Done("do_add_network", <<"NetworkAdded", netuid, modality>>)

\* an administrative removal that does not check its origin
do_remove_network_any_origin(origin, netuid) ==
    IF ~if_subnet_exist(netuid)
    THEN Fail("do_remove_network", "NetworkDoesNotExist")
    ELSE /\ remove_network(netuid)
         /\ Done("do_remove_network", <<"NetworkRemoved", netuid>>)

do_remove_network(origin, netuid) ==
    IF origin # "Root" THEN Fail("do_remove_network", "BadOrigin")
    ELSE IF ~if_subnet_exist(netuid)
    THEN Fail("do_remove_network", "NetworkDoesNotExist")
    ELSE /\ remove_network(netuid)
         /\ Done("do_remove_network", <<"NetworkRemoved", netuid>>)

\* a requirement call that does not compare the two netuids
do_sudo_add_network_connection_requirement_loops(origin, netuid_a, netuid_b, requirement) ==
    LET op == "do_sudo_add_network_connection_requirement" IN
    IF origin # "Root" THEN Fail(op, "BadOrigin")
    ELSE IF ~if_subnet_exist(netuid_a) THEN Fail(op, "NetworkDoesNotExist")
    ELSE IF ~if_subnet_exist(netuid_b) THEN Fail(op, "NetworkDoesNotExist")
    ELSE /\ NetworkConnect' =
                add_connection_requirement(netuid_a, netuid_b, requirement)
         /\ UNCHANGED <<NetworksAdded, TotalNetworks, SubnetworkN, Tempo,
                        NetworkModality, EmissionValues, Params, Tables,
                        SubnetOwner, SubnetLocked, NetworkRegisteredAt,
                        balances, current_block>>
         /\ Done(op, <<"NetworkConnectionAdded", netuid_a, netuid_b, requirement>>)

do_sudo_add_network_connection_requirement(origin, netuid_a, netuid_b, requirement) ==
    LET op == "do_sudo_add_network_connection_requirement" IN
    IF origin # "Root" THEN Fail(op, "BadOrigin")
    ELSE IF netuid_a = netuid_b THEN Fail(op, "InvalidConnectionRequirement")
    ELSE IF ~if_subnet_exist(netuid_a) THEN Fail(op, "NetworkDoesNotExist")
    ELSE IF ~if_subnet_exist(netuid_b) THEN Fail(op, "NetworkDoesNotExist")
    ELSE /\ NetworkConnect' =
                add_connection_requirement(netuid_a, netuid_b, requirement)
         /\ UNCHANGED <<NetworksAdded, TotalNetworks, SubnetworkN, Tempo,
                        NetworkModality, EmissionValues, Params, Tables,
                        SubnetOwner, SubnetLocked, NetworkRegisteredAt,
                        balances, current_block>>
         /\ Done(op, <<"NetworkConnectionAdded", netuid_a, netuid_b, requirement>>)

do_sudo_remove_network_connection_requirement(origin, netuid_a, netuid_b) ==
    LET op == "do_sudo_remove_network_connection_requirement" IN
    IF origin # "Root" THEN Fail(op, "BadOrigin")
    ELSE IF ~if_subnet_exist(netuid_a) THEN Fail(op, "NetworkDoesNotExist")
    ELSE IF ~if_subnet_exist(netuid_b) THEN Fail(op, "NetworkDoesNotExist")
    ELSE /\ NetworkConnect' = remove_connection_requirment(netuid_a, netuid_b)
         /\ UNCHANGED <<NetworksAdded, TotalNetworks, SubnetworkN, Tempo,
                        NetworkModality, EmissionValues, Params, Tables,
                        SubnetOwner, SubnetLocked, NetworkRegisteredAt,
                        balances, current_block>>
         /\ Done(op, <<"NetworkConnectionRemoved", netuid_a, netuid_b>>)

do_set_emission_values(origin, netuids, emission) ==
    LET op == "do_set_emission_values"
        emission_sum == checked_sum(emission)
    IN
    IF origin # "Root" THEN Fail(op, "BadOrigin")
    ELSE IF Len(netuids) # Len(emission) THEN Fail(op, "WeightVecNotEqualSize")
    ELSE IF Len(netuids) # TotalNetworks THEN Fail(op, "IncorrectNetuidsLength")
    ELSE IF has_duplicate_netuids(netuids) THEN Fail(op, "DuplicateUids")
    ELSE IF contains_invalid_netuids(netuids) THEN Fail(op, "InvalidUid")
    ELSE IF emission_sum = None THEN Fail(op, "InvalidEmissionValues")
    ELSE IF emission_sum[1] # get_block_emission
    THEN Fail(op, "InvalidEmissionValues")
    ELSE /\ EmissionValues' = set_emission_values(netuids, emission)
         /\ UNCHANGED <<NetworksAdded, TotalNetworks, SubnetworkN, Tempo,
                        NetworkModality, Params, Tables, NetworkConnect,
                        SubnetOwner, SubnetLocked, NetworkRegisteredAt,
                        balances, current_block>>
         /\ Done(op, <<"EmissionValuesSet">>)

\* ------------------------------------------------------------------ burn cost

\* last_burn * mult and (last_burn / (8 * DAYS)) * (current_block - last_burn_block)
\* as numbers, before they are cut to the u64
burn_stepped_up ==
    NetworkLastBurnCost * (IF NetworkLastRegistered = 0 THEN 1 ELSE 2)

burn_decay ==
    (NetworkLastBurnCost \div (8 * DAYS)) * (current_block - NetworkLastRegistered)

\* One of the unchecked u64 operations of get_network_burn_cost leaves the u64.
burn_cost_overflows ==
    \/ current_block < NetworkLastRegistered
    \/ burn_stepped_up > PriceMax
    \/ burn_decay > PriceMax
    \/ burn_decay > burn_stepped_up

\* get_network_burn_cost as a build without overflow checks computes it: every
\* operation wraps around.
get_network_burn_cost_wrapping ==
    LET last_burn == NetworkLastBurnCost
        min_burn == NetworkMinBurnCost
        last_burn_block == NetworkLastRegistered
        mult == IF last_burn_block = 0 THEN 1 ELSE 2
        elapsed == (current_block - last_burn_block) % (PriceMax + 1)
        rate == last_burn \div (8 * DAYS)
        burn_cost ==
            (((last_burn * mult) % (PriceMax + 1))
                - ((rate * elapsed) % (PriceMax + 1))) % (PriceMax + 1)
    IN  IF burn_cost < min_burn THEN min_burn ELSE burn_cost

\* What a call of get_network_burn_cost can do: return the wrapped result, or,
\* in a build with overflow checks, panic when an operation overflows.
get_network_burn_cost ==
    {[panicked |-> FALSE, cost |-> get_network_burn_cost_wrapping]}
        \cup (IF burn_cost_overflows THEN {[panicked |-> TRUE, cost |-> 0]} ELSE {})

\* A burn cost query; the replies of the latest two queries are kept.
GetNetworkBurnCost ==
    /\ \E r \in get_network_burn_cost :
           burn_costs' =
               (IF burn_costs = <<>> THEN <<>> ELSE <<burn_costs[Len(burn_costs)]>>)
                   \o <<[block |-> current_block, panicked |-> r.panicked,
                          cost |-> r.cost]>>
    /\ UNCHANGED <<stores, events, lastCall, history, pricing, ledger, pruned,
                   delegate_reply, snapshot_run, ledger_seen>>

\* Blocks pass.
AdvanceBlock(steps) ==
    /\ \E d \in steps :
           /\ current_block + d <= MaxBlock
           /\ current_block' = current_block + d
    /\ UNCHANGED <<NetworksAdded, TotalNetworks, SubnetworkN, Tempo,
                   NetworkModality, EmissionValues, Params, Tables,
                   NetworkConnect, SubnetOwner, SubnetLocked,
                   NetworkRegisteredAt, balances>>
    /\ UNCHANGED <<events, lastCall, history, pricing, ledger, replies>>

\* ------------------------------------------------------------------ pruning

\* ValueQuery reads at any u16 netuid
get_emission_value(netuid) ==
    IF netuid \in Netuids THEN Get(EmissionValues, netuid, DefaultEmissionValues)
    ELSE DefaultEmissionValues

get_network_registered_block(netuid) ==
    IF netuid \in Netuids THEN Get(NetworkRegisteredAt, netuid, 0) ELSE 0

get_network_immunity_period == NetworkImmunityPeriod

\* The four locals of get_subnet_to_prune after the loop has run over the
\* netuids 0 .. i - 1.
RECURSIVE prune_scan(_)
prune_scan(i) ==
    IF i = 0
    THEN [min_score |-> 1,
          min_score_in_immunity_period |-> U64Max,
          uid_with_min_score |-> 1,
          uid_with_min_score_in_immunity_period |-> 1]
    ELSE
      LET s == prune_scan(i - 1)
          netuid == i - 1
          emission_value == get_emission_value(netuid)
          block_at_registration == get_network_registered_block(netuid)
          immunity_period == get_network_immunity_period
          in_immunity == current_block - block_at_registration < immunity_period
          visited ==
              IF in_immunity
              THEN IF s.min_score_in_immunity_period > emission_value
                   THEN [s EXCEPT !.min_score_in_immunity_period = emission_value,
                                  !.uid_with_min_score_in_immunity_period = netuid]
                   ELSE s
              ELSE [s EXCEPT !.min_score = emission_value,
                             !.uid_with_min_score = netuid]
      IN  IF s.min_score = emission_value THEN visited
          ELSE IF s.min_score > emission_value THEN visited
          ELSE s

get_subnet_to_prune ==
    LET s == prune_scan(TotalNetworks)
    IN  IF s.min_score = 1 THEN s.uid_with_min_score_in_immunity_period
        ELSE s.uid_with_min_score

\* A call of get_subnet_to_prune; what it returned is kept.
GetSubnetToPrune ==
    /\ pruned' = Some(get_subnet_to_prune)
    /\ UNCHANGED <<stores, events, lastCall, history, pricing, ledger, burn_costs,
                   delegate_reply, snapshot_run, ledger_seen>>

\* ------------------------------------------------------------------ delegate queries

\* An account handed to a query as bytes: the number of bytes and what the
\* first 32 of them encode, an account or nothing ("garbage").
AccountVecs ==
    [len : {31, 32, 33}, content : Hotkeys \cup Coldkeys \cup {"garbage"}]

\* T::AccountId::decode: reads 32 bytes, and fails when there are fewer or when
\* they encode no account
decode(account_vec) ==
    IF account_vec.len < 32 \/ account_vec.content = "garbage" THEN None
    ELSE Some(account_vec.content)

\* Delegates::contains_key
is_delegate(account) == account \in Hotkeys /\ Delegates[account] # None

\* the take Delegates holds at a key without entry
DefaultTake == 0

get_owning_coldkey_for_hotkey(hotkey) ==
    IF hotkey \in Hotkeys THEN Get(Owner, hotkey, DefaultAccount) ELSE DefaultAccount

get_stake_for_coldkey_and_hotkey(coldkey, hotkey) ==
    IF <<hotkey, coldkey>> \in StakeKeys THEN Get(Stake, <<hotkey, coldkey>>, 0) ELSE 0

\* The order in which the storage iterators visit the keys.
NominatorOrder == <<"ck1", "ck2">>

DelegateOrder == <<"hk1", "hk2">>

\* Stake::iter_prefix(delegate): the entries under the delegate, in storage order
stake_iter_prefix(delegate) ==
    LET entries ==
            [i \in 1..Len(NominatorOrder) |->
                <<NominatorOrder[i], Stake[<<delegate, NominatorOrder[i]>>]>>]
        present(e) == e[2] # None
        stored == SelectSeq(entries, present)
    IN  [i \in 1..Len(stored) |-> <<stored[i][1], stored[i][2][1]>>]

\* The stakes recorded in a ledger, added up.
RECURSIVE TotalStaked(_, _)
TotalStaked(S, keys) ==
    IF keys = {} THEN 0
    ELSE LET k == CHOOSE x \in keys : TRUE
         IN  (IF S[k] = None THEN 0 ELSE S[k][1]) + TotalStaked(S, keys \ {k})

\* U64F64, a 128-bit fixed-point number with 64 fractional bits, scaled down:
\* a value is the integer raw standing for raw / FixOne, at most FixMax.
FixOne == 16384

FixIntMax == 65535

FixMax == FixIntMax * FixOne + (FixOne - 1)

Saturate(raw) == IF raw > FixMax THEN FixMax ELSE raw

\* U64F64::from_num of an integer, and the .into() of a u64 or u16
from_num(n) == Saturate(n * FixOne)

\* U64F64::from_num of the f64 literal with h hundredths (0.82): the literal
\* is no binary fraction, and the f64 nearest to it is below it, as the
\* truncated value is
from_num_hundredths(h) == (h * FixOne) \div 100

\* U64F64::to_num::<u64>: the integer part
to_num(a) == a \div FixOne

saturating_add(a, b) == Saturate(a + b)

\* the product, truncated to the fractional bits
saturating_mul(a, b) ==
    LET ai == a \div FixOne
        af == a % FixOne
        bi == b \div FixOne
        bf == b % FixOne
    IN  Saturate(ai * bi * FixOne + ai * bf + af * bi + (af * bf) \div FixOne)

\* the quotient, truncated to the fractional bits
saturating_div(a, b) ==
    Saturate((a \div b) * FixOne + ((a % b) * FixOne) \div b)

\* blocks in a day, the share of the return that goes to the nominators in
\* hundredths, and the stake the return is quoted for
BlocksPerDay == 7200

ReturnShareHundredths == 82

StakeUnit == 1000

\* the subnetworks the hotkey has a neuron slot on, in ascending order, up to
\* netuid k
RECURSIVE registered_networks_upto(_, _)
registered_networks_upto(hotkey, k) ==
    IF k < 0 THEN <<>>
    ELSE LET rest == registered_networks_upto(hotkey, k - 1)
         IN  IF Neurons[<<k, hotkey>>] # None THEN Append(rest, k) ELSE rest

get_registered_networks_for_hotkey(hotkey) ==
    IF hotkey \in Hotkeys THEN registered_networks_upto(hotkey, MaxNetuid) ELSE <<>>

\* Ok(uid) when the hotkey has a slot on the subnetwork; the slot stands for
\* the uid
get_uid_for_net_and_hotkey(netuid, hotkey) ==
    IF <<netuid, hotkey>> \in NeuronKeys THEN Neurons[<<netuid, hotkey>>] ELSE None

get_validator_permit_for_uid(netuid, uid) == uid.permit

get_emission_for_uid(netuid, uid) == uid.emission

get_tempo(netuid) == Get(Tempo, netuid, DefaultTempo)

\* TotalHotkeyStake: the stake under the hotkey, added up
get_total_stake_for_hotkey(hotkey) ==
    IF hotkey \in Hotkeys
    THEN TotalStaked(Stake, {k \in StakeKeys : k[1] = hotkey})
    ELSE 0

\* The nominator loop: the entries under the delegate that hold stake.
delegate_nominators(delegate) ==
    LET with_stake(e) == e[2] # 0
    IN  SelectSeq(stake_iter_prefix(delegate), with_stake)

\* One pass of the loop over the registrations: acc holds validator_permits
\* and emissions_per_day.
delegate_network_step(acc, netuid, delegate) ==
    LET uid == get_uid_for_net_and_hotkey(netuid, delegate)
    IN  IF uid = None THEN acc
        ELSE LET validator_permit == get_validator_permit_for_uid(netuid, uid[1])
                 emission == from_num(get_emission_for_uid(netuid, uid[1]))
                 tempo == from_num(get_tempo(netuid))
                 epochs_per_day == saturating_div(from_num(BlocksPerDay), tempo)
             IN  [validator_permits |->
                      IF validator_permit
                      THEN Append(acc.validator_permits, netuid)
                      ELSE acc.validator_permits,
                  emissions_per_day |->
                      IF tempo > from_num(0)
                      THEN saturating_add(acc.emissions_per_day,
                                          saturating_mul(emission, epochs_per_day))
                      ELSE acc.emissions_per_day]

\* The loop over the first i registrations.
RECURSIVE delegate_network_loop(_, _, _)
delegate_network_loop(delegate, registrations, i) ==
    IF i = 0 THEN [validator_permits |-> <<>>, emissions_per_day |-> from_num(0)]
    ELSE delegate_network_step(
             delegate_network_loop(delegate, registrations, i - 1),
             registrations[i], delegate)

\* return_per_1000 of a daily emission and a total stake, both U64F64
delegate_return_per_1000(emissions_per_day, total_stake) ==
    IF total_stake > from_num(0)
    THEN saturating_div(
             saturating_mul(emissions_per_day,
                            from_num_hundredths(ReturnShareHundredths)),
             saturating_div(total_stake, from_num(StakeUnit)))
    ELSE from_num(0)

\* a snapshot that keeps the nominators without stake
get_delegate_by_existing_account_zero_kept(delegate) ==
    LET registrations == get_registered_networks_for_hotkey(delegate)
        networks == delegate_network_loop(delegate, registrations, Len(registrations))
        total_stake == from_num(get_total_stake_for_hotkey(delegate))
    IN  [delegate_ss58 |-> delegate,
         take |-> Get(Delegates, delegate, DefaultTake),
         nominators |-> stake_iter_prefix(delegate),
         owner_ss58 |-> get_owning_coldkey_for_hotkey(delegate),
         registrations |-> registrations,
         validator_permits |-> networks.validator_permits,
         return_per_1000 |->
             to_num(delegate_return_per_1000(networks.emissions_per_day, total_stake)),
         total_daily_return |-> to_num(networks.emissions_per_day)]

\* The DelegateInfo built for a delegate.
get_delegate_by_existing_account(delegate) ==
    LET nominators == delegate_nominators(delegate)
        registrations == get_registered_networks_for_hotkey(delegate)
        networks == delegate_network_loop(delegate, registrations, Len(registrations))
        owner == get_owning_coldkey_for_hotkey(delegate)
        take == Get(Delegates, delegate, DefaultTake)
        total_stake == from_num(get_total_stake_for_hotkey(delegate))
        return_per_1000 ==
            delegate_return_per_1000(networks.emissions_per_day, total_stake)
    IN  [delegate_ss58 |-> delegate,
         take |-> take,
         nominators |-> nominators,
         owner_ss58 |-> owner,
         registrations |-> registrations,
         validator_permits |-> networks.validator_permits,
         return_per_1000 |-> to_num(return_per_1000),
         total_daily_return |-> to_num(networks.emissions_per_day)]

\* a lookup that does not check the number of bytes
get_delegate_any_length(delegate_account_vec) ==
    IF decode(delegate_account_vec) = None THEN None
    ELSE IF ~is_delegate(decode(delegate_account_vec)[1]) THEN None
    ELSE Some(get_delegate_by_existing_account(decode(delegate_account_vec)[1]))

get_delegate(delegate_account_vec) ==
    IF delegate_account_vec.len # 32 THEN None
    ELSE IF decode(delegate_account_vec) = None THEN None
    ELSE IF ~is_delegate(decode(delegate_account_vec)[1]) THEN None
    ELSE Some(get_delegate_by_existing_account(decode(delegate_account_vec)[1]))

\* The list get_delegated has built after the first i delegates of the
\* iteration.
RECURSIVE get_delegated_upto(_, _)
get_delegated_upto(delegatee, i) ==
    IF i = 0 THEN <<>>
    ELSE LET delegates == get_delegated_upto(delegatee, i - 1)
             delegate == DelegateOrder[i]
             staked_to_this_delegatee ==
                 get_stake_for_coldkey_and_hotkey(delegatee, delegate)
         IN  IF ~is_delegate(delegate) THEN delegates
             ELSE IF staked_to_this_delegatee = 0 THEN delegates
             ELSE Append(delegates,
                         <<get_delegate_by_existing_account(delegate),
                           staked_to_this_delegatee>>)

get_delegated(delegatee_account_vec) ==
    IF decode(delegatee_account_vec) = None THEN <<>>
    ELSE get_delegated_upto(decode(delegatee_account_vec)[1], Len(DelegateOrder))

\* iter().sum() of u64 stakes
RECURSIVE sum_stakes(_)
sum_stakes(nominators) ==
    IF nominators = <<>> THEN 0
    ELSE (nominators[1][2] + sum_stakes(Tail(nominators))) % (U64Max + 1)

\* a total that counts the owner's own stake
get_total_delegated_stake_owner_counted(delegate) ==
    IF ~is_delegate(delegate) THEN 0
    ELSE sum_stakes(get_delegate_by_existing_account(delegate).nominators)

get_total_delegated_stake(delegate) ==
    IF ~is_delegate(delegate) THEN 0
    ELSE LET delegate_info == get_delegate_by_existing_account(delegate)
             owner == get_owning_coldkey_for_hotkey(delegate)
             not_owner(e) == e[1] # owner
         IN  sum_stakes(SelectSeq(delegate_info.nominators, not_owner))

\* The queries, called; the latest query and its reply are kept.
Reply(query, arg, value) ==
    /\ delegate_reply' = [query |-> query, arg |-> arg, value |-> value]
    /\ UNCHANGED <<stores, events, lastCall, history, pricing, ledger, burn_costs,
                   pruned, snapshot_run, ledger_seen>>

GetDelegate ==
    \E v \in AccountVecs : Reply("get_delegate", v, get_delegate(v))

GetDelegated ==
    \E v \in AccountVecs : Reply("get_delegated", v, get_delegated(v))

GetTotalDelegatedStake ==
    \E a \in Hotkeys \cup Coldkeys :
        Reply("get_total_delegated_stake", a, get_total_delegated_stake(a))

\* ------------------------------------------------------------------ snapshot in steps

\* get_delegate_by_existing_account as the sequence of its reads of the
\* ledger, in the order of the code: the position pc and the locals read so
\* far.  Each operator is one read; it takes the run and gives the run after.

MaxMutations == 2

MaxStakeUnits == 2

\* the locals before the first read
snapshot_begin(delegate) ==
    [pc |-> "nominators",
     delegate |-> delegate,
     nominators |-> <<>>,
     registrations |-> <<>>,
     next |-> 1,
     networks |-> delegate_network_loop(delegate, <<>>, 0),
     owner |-> DefaultAccount,
     take |-> DefaultTake,
     total_stake |-> from_num(0)]

snapshot_read_nominators(run) ==
    [run EXCEPT !.nominators = delegate_nominators(run.delegate),
                !.pc = "registrations"]

snapshot_read_registrations(run) ==
    LET registrations == get_registered_networks_for_hotkey(run.delegate)
    IN  [run EXCEPT !.registrations = registrations,
                    !.pc = IF registrations = <<>> THEN "owner" ELSE "networks"]

\* one pass of the loop over the registrations
snapshot_read_network(run) ==
    [run EXCEPT !.networks =
                    delegate_network_step(run.networks,
                                          run.registrations[run.next],
                                          run.delegate),
                !.next = run.next + 1,
                !.pc = IF run.next = Len(run.registrations)
                       THEN "owner" ELSE "networks"]

snapshot_read_owner(run) ==
    [run EXCEPT !.owner = get_owning_coldkey_for_hotkey(run.delegate),
                !.pc = "take"]

\* a read of the take that does not look at the store
snapshot_read_take_unread(run) ==
    [run EXCEPT !.take = DefaultTake, !.pc = "total_stake"]

snapshot_read_take(run) ==
    [run EXCEPT !.take = Get(Delegates, run.delegate, DefaultTake),
                !.pc = "total_stake"]

snapshot_read_total_stake(run) ==
    [run EXCEPT !.total_stake = from_num(get_total_stake_for_hotkey(run.delegate)),
                !.pc = "build"]

\* the DelegateInfo built from the locals
snapshot_build(run) ==
    [delegate_ss58 |-> run.delegate,
     take |-> run.take,
     nominators |-> run.nominators,
     owner_ss58 |-> run.owner,
     registrations |-> run.registrations,
     validator_permits |-> run.networks.validator_permits,
     return_per_1000 |->
         to_num(delegate_return_per_1000(run.networks.emissions_per_day,
                                         run.total_stake)),
     total_daily_return |-> to_num(run.networks.emissions_per_day)]

\* What the stores hold for a delegate, store by store as the snapshot reads
\* them, and the snapshot of this one state.
LedgerView(delegate) ==
    [nominators |-> delegate_nominators(delegate),
     registrations |-> get_registered_networks_for_hotkey(delegate),
     networks |->
         [n \in Netuids |->
             delegate_network_step(delegate_network_loop(delegate, <<>>, 0),
                                   n, delegate)],
     owner |-> get_owning_coldkey_for_hotkey(delegate),
     take |-> Get(Delegates, delegate, DefaultTake),
     total_stake |-> from_num(get_total_stake_for_hotkey(delegate)),
     whole |-> get_delegate_by_existing_account(delegate)]

\* what a step of the snapshot leaves alone
SnapshotFrame ==
    UNCHANGED <<stores, events, lastCall, history, pricing, ledger, burn_costs,
                pruned>>

Running == snapshot_run.pc \notin {"idle", "done"}

SnapshotStart ==
    \E d \in Hotkeys :
        /\ snapshot_run.pc = "idle"
        /\ is_delegate(d)
        /\ snapshot_run' = snapshot_begin(d)
        /\ ledger_seen' =
               [ledger_seen EXCEPT !.values = {LedgerView(d)}, !.during = 0]
        /\ UNCHANGED delegate_reply
        /\ SnapshotFrame

\* The read at position pc; what the ledger holds at the moment of the read
\* is recorded.
SnapshotRead(pc, after) ==
    /\ snapshot_run.pc = pc
    /\ snapshot_run' = after
    /\ ledger_seen' =
           [ledger_seen EXCEPT
               !.values = @ \cup {LedgerView(snapshot_run.delegate)}]
    /\ UNCHANGED delegate_reply
    /\ SnapshotFrame

SnapshotReadNominators ==
    SnapshotRead("nominators", snapshot_read_nominators(snapshot_run))

SnapshotReadRegistrations ==
    SnapshotRead("registrations", snapshot_read_registrations(snapshot_run))

SnapshotReadNetwork ==
    SnapshotRead("networks", snapshot_read_network(snapshot_run))

SnapshotReadOwner == SnapshotRead("owner", snapshot_read_owner(snapshot_run))

SnapshotReadTake == SnapshotRead("take", snapshot_read_take(snapshot_run))

SnapshotReadTotalStake ==
    SnapshotRead("total_stake", snapshot_read_total_stake(snapshot_run))

\* The snapshot is built and returned.
SnapshotBuild ==
    /\ snapshot_run.pc = "build"
    /\ snapshot_run' = [snapshot_run EXCEPT !.pc = "done"]
    /\ delegate_reply' =
           [query |-> "snapshot", arg |-> snapshot_run.delegate,
            value |-> snapshot_build(snapshot_run)]
    /\ UNCHANGED ledger_seen
    /\ SnapshotFrame

\* A mutation of the ledger, before a snapshot or between two of its reads;
\* the mutations are counted, those during a snapshot apart.
Mutation ==
    /\ snapshot_run.pc # "done"
    /\ ledger_seen.mutations < MaxMutations
    /\ UNCHANGED <<stores, events, lastCall, history, pricing, burn_costs, pruned,
                   delegate_reply, snapshot_run>>
    /\ ledger_seen' =
           [ledger_seen EXCEPT
               !.mutations = @ + 1,
               !.during = @ + (IF Running THEN 1 ELSE 0)]

\* a coldkey adds stake to a delegate
AddStake ==
    \E h \in Hotkeys, c \in Coldkeys :
        /\ is_delegate(h)
        /\ get_total_stake_for_hotkey(h) + StakeUnit <= MaxStakeUnits * StakeUnit
        /\ Stake' = [Stake EXCEPT ![<<h, c>>] =
                         Some(get_stake_for_coldkey_and_hotkey(c, h) + StakeUnit)]
        /\ UNCHANGED <<Delegates, Owner, Neurons>>
        /\ Mutation

\* a coldkey takes all its stake from a delegate: the entry stays, at zero
RemoveStake ==
    \E h \in Hotkeys, c \in Coldkeys :
        /\ is_delegate(h)
        /\ get_stake_for_coldkey_and_hotkey(c, h) > 0
        /\ Stake' = [Stake EXCEPT ![<<h, c>>] = Some(0)]
        /\ UNCHANGED <<Delegates, Owner, Neurons>>
        /\ Mutation

\* an epoch of a subnetwork gives a neuron another emission
SetNeuronEmission(emissions) ==
    \E k \in NeuronKeys, e \in emissions :
        /\ Neurons[k] # None
        /\ Neurons[k][1].emission # e
        /\ Neurons' = [Neurons EXCEPT ![k] = Some([Neurons[k][1] EXCEPT !.emission = e])]
        /\ UNCHANGED <<Delegates, Stake, Owner>>
        /\ Mutation

\* a delegate lowers its take
DecreaseTake ==
    \E h \in Hotkeys :
        /\ is_delegate(h)
        /\ Delegates[h][1] > 0
        /\ Delegates' = [Delegates EXCEPT ![h] = Some(Delegates[h][1] - 1)]
        /\ UNCHANGED <<Stake, Owner, Neurons>>
        /\ Mutation

\* ------------------------------------------------------------------ environment

\* Subnet registration by a user (outside this file) records the owner, the
\* locked amount and the registration block of a live subnetwork.  An amount
\* the balance type holds is taken from the owner's free balance.
lock_subnet(netuid, coldkey, amount) ==
    /\ if_subnet_exist(netuid)
    /\ SubnetOwner[netuid] = None
    /\ u64_to_balance(amount) # None => balances[coldkey] >= amount
    /\ SubnetOwner' = [SubnetOwner EXCEPT ![netuid] = Some(coldkey)]
    /\ SubnetLocked' = [SubnetLocked EXCEPT ![netuid] = amount]
    /\ NetworkRegisteredAt' =
           [NetworkRegisteredAt EXCEPT ![netuid] = Some(current_block)]
    /\ balances' = IF u64_to_balance(amount) # None
                   THEN [balances EXCEPT ![coldkey] = @ - amount]
                   ELSE balances
    /\ UNCHANGED <<NetworksAdded, TotalNetworks, SubnetworkN, Tempo,
                   NetworkModality, EmissionValues, Params, Tables,
                   NetworkConnect, current_block>>
    /\ lastCall' = [op |-> "lock_subnet", result |-> "Ok"]
    /\ events' = <<>>

\* Registration of a neuron on a live subnetwork (outside this file) gives the
\* subnetwork entries in every per-netuid derived table.
register_neuron(netuid) ==
    /\ if_subnet_exist(netuid)
    /\ Get(SubnetworkN, netuid, 0) < MaxNeurons
    /\ SubnetworkN' = [SubnetworkN EXCEPT ![netuid] = Some(Get(SubnetworkN, netuid, 0) + 1)]
    /\ Tables' = [t \in TableNames |-> Tables[t] \cup {netuid}]
    /\ UNCHANGED <<NetworksAdded, TotalNetworks, Tempo, NetworkModality,
                   EmissionValues, Params, NetworkConnect, SubnetOwner,
                   SubnetLocked, NetworkRegisteredAt, balances, current_block>>
    /\ lastCall' = [op |-> "register_neuron", result |-> "Ok"]
    /\ events' = <<>>

\* ------------------------------------------------------------------ specification

\* Each extrinsic with its arguments drawn from the given input sets.
AddNetwork(tempos, modalities) ==
    \E o \in SudoOrigins, n \in Netuids, t \in tempos, m \in modalities :
        do_add_network(o, n, t, m)

RemoveNetwork == \E o \in SudoOrigins, n \in Netuids : do_remove_network(o, n)

UserRemoveNetwork == \E o \in Origins, n \in Netuids : user_remove_network(o, n)

TransferOwnership ==
    \E o \in Origins, n \in Netuids, d \in Coldkeys :
        network_transfer_ownership(o, n, d)

AddConnectionRequirement ==
    \E o \in SudoOrigins, a \in Netuids, b \in Netuids, r \in RequirementInputs :
        do_sudo_add_network_connection_requirement(o, a, b, r)

RemoveConnectionRequirement ==
    \E o \in SudoOrigins, a \in Netuids, b \in Netuids :
        do_sudo_remove_network_connection_requirement(o, a, b)

NetuidLists == Lists(Netuids, MaxListLen)

EmissionLists == Lists(EmissionInputs, MaxListLen)

\* Root with every pair of lists; another origin with one pair.
SetEmissionValues ==
    \E o \in SudoOrigins, ns \in NetuidLists, es \in EmissionLists :
        /\ o = "Root" \/ (ns = <<>> /\ es = <<>>)
        /\ do_set_emission_values(o, ns, es)

LockSubnet(amounts) ==
    \E n \in Netuids, c \in Coldkeys, a \in amounts : lock_subnet(n, c, a)

\* The full-hyperparameter initialisation, called directly (it is no
\* extrinsic: it checks nothing and returns nothing).  Every hyperparameter
\* argument is v.  The guard caps the counter.
InitNetworkEx(tempos, modalities) ==
    \E n \in Netuids, t \in tempos, m \in modalities, v \in ParamValues :
        /\ TotalNetworks < MaxTotalNetworks
        /\ WriteInit(init_new_network_ex(n, t, m, [p \in ExParams |-> v]))
        /\ lastCall' = [op |-> "init_new_network_ex", result |-> "Ok"]
        /\ events' = <<>>

RegisterNeuron == \E n \in Netuids : register_neuron(n)

\* The administrative surface, with one valid tempo and modality.
Next ==
    \/ AddNetwork({100, U16Max}, {2, 3}) /\ UNCHANGED <<history, pricing, ledger, replies>>
    \/ RemoveNetwork /\ UNCHANGED <<history, pricing, ledger, replies>>
    \/ UserRemoveNetwork /\ UNCHANGED <<history, pricing, ledger, replies>>
    \/ TransferOwnership /\ UNCHANGED <<history, pricing, ledger, replies>>
    \/ AddConnectionRequirement /\ UNCHANGED <<history, pricing, ledger, replies>>
    \/ RemoveConnectionRequirement /\ UNCHANGED <<history, pricing, ledger, replies>>
    \/ SetEmissionValues /\ UNCHANGED <<history, pricing, ledger, replies>>
    \/ LockSubnet({1, U64Max}) /\ UNCHANGED <<history, pricing, ledger, replies>>

Spec == Init /\ [][Next]_vars

\* history after a step: the stores before a successful do_add_network, kept
\* while the very next call is a successful removal of the same netuid.
Track ==
    history' =
        IF lastCall'.op = "do_add_network" /\ lastCall'.result = "Ok"
        THEN [phase |-> "created", netuid |-> events'[1][2], stores |-> stores]
        ELSE IF /\ history.phase = "created"
                /\ lastCall'.op \in {"do_remove_network", "user_remove_network"}
                /\ lastCall'.result = "Ok"
                /\ events'[1][2] = history.netuid
        THEN [history EXCEPT !.phase = "removed"]
        ELSE NoHistory

\* Creation and removal, with every tempo and modality.
NextCreate ==
    \/ AddNetwork(TempoInputs, ModalityInputs) /\ Track /\ UNCHANGED <<pricing, ledger, replies>>
    \/ RemoveNetwork /\ Track /\ UNCHANGED <<pricing, ledger, replies>>
    \/ UserRemoveNetwork /\ Track /\ UNCHANGED <<pricing, ledger, replies>>
    \/ LockSubnet({1}) /\ Track /\ UNCHANGED <<pricing, ledger, replies>>

SpecCreate == Init /\ [][NextCreate]_vars

\* Creation with every tempo and modality and removal, in states that hold
\* connection requirements and hyperparameters of earlier subnetworks.
NextRoundTrip ==
    \/ AddNetwork(TempoInputs, ModalityInputs) /\ Track /\ UNCHANGED <<pricing, ledger, replies>>
    \/ RemoveNetwork /\ Track /\ UNCHANGED <<pricing, ledger, replies>>
    \/ AddConnectionRequirement /\ Track /\ UNCHANGED <<pricing, ledger, replies>>
    \/ InitNetworkEx({100}, {2}) /\ Track /\ UNCHANGED <<pricing, ledger, replies>>

SpecRoundTrip == Init /\ [][NextRoundTrip]_vars

\* Creation, removal and the emission batch.
NextEmission ==
    \/ AddNetwork({0, 100, U16Max}, {2, 3}) /\ UNCHANGED <<history, pricing, ledger, replies>>
    \/ RemoveNetwork /\ UNCHANGED <<history, pricing, ledger, replies>>
    \/ SetEmissionValues /\ UNCHANGED <<history, pricing, ledger, replies>>

SpecEmission == Init /\ [][NextEmission]_vars

\* Creation and removal together with the full-hyperparameter initialisation
\* and neuron registration.
NextFull ==
    \/ AddNetwork({100}, {2}) /\ UNCHANGED <<history, pricing, ledger, replies>>
    \/ RemoveNetwork /\ UNCHANGED <<history, pricing, ledger, replies>>
    \/ UserRemoveNetwork /\ UNCHANGED <<history, pricing, ledger, replies>>
    \/ LockSubnet({1}) /\ UNCHANGED <<history, pricing, ledger, replies>>
    \/ InitNetworkEx({100}, {2}) /\ UNCHANGED <<history, pricing, ledger, replies>>
    \/ RegisterNeuron /\ UNCHANGED <<history, pricing, ledger, replies>>

SpecFull == Init /\ [][NextFull]_vars


LastBurnInputs == {0, 1, 8 * DAYS - 1, 8 * DAYS, 16 * DAYS, PriceMax}

MinBurnInputs == {0, 1, 8 * DAYS}

LastBurnBlockInputs == {0, 1}

BlockSteps == {4 * DAYS, 8 * DAYS + 1}

\* The pricing state after some registration history, at the block of the
\* latest registration.
InitBurn ==
    /\ InitRegistry /\ InitLedger /\ InitReplies
    /\ NetworkLastBurnCost \in LastBurnInputs
    /\ NetworkMinBurnCost \in MinBurnInputs
    /\ NetworkLastRegistered \in LastBurnBlockInputs
    /\ NetworkImmunityPeriod = 0
    /\ current_block = NetworkLastRegistered

\* Burn cost queries as blocks pass without a new registration.
NextBurn ==
    \/ GetNetworkBurnCost
    \/ AdvanceBlock(BlockSteps)

SpecBurn == InitBurn /\ [][NextBurn]_vars

PruneEmissionInputs == {0, 1, 2, U64Max}

\* the block of the pruning queries, and the blocks subnetworks registered at
PruneBlock == 2

RegisteredAtInputs == {0, PruneBlock}

ImmunityPeriodInputs == {0, 1, PruneBlock + 1}

\* the account that registered netuid n, where one did
Registrant(n) == IF n = 0 THEN "ck1" ELSE "ck2"

\* The registry at block PruneBlock with the subnetworks 0 .. TotalNetworks - 1
\* live, each created by do_add_network and some registered (locked) by an
\* account at an earlier block or at this one, with emission values as some
\* emission batch (for some block emission) left them; the immunity period
\* is configuration.
InitPrune ==
    /\ InitLedger /\ InitReplies
    /\ NetworkLastBurnCost = 0
    /\ NetworkMinBurnCost = 0
    /\ NetworkLastRegistered = 0
    /\ NetworkImmunityPeriod \in ImmunityPeriodInputs
    /\ TotalNetworks \in 0..(MaxNetuid + 1)
    /\ NetworksAdded =
           [n \in Netuids |-> IF n < TotalNetworks THEN Some(TRUE) ELSE None]
    /\ SubnetworkN = [n \in Netuids |-> IF n < TotalNetworks THEN Some(0) ELSE None]
    /\ Tempo = [n \in Netuids |-> IF n < TotalNetworks THEN Some(100) ELSE None]
    /\ NetworkModality =
           [n \in Netuids |-> IF n < TotalNetworks THEN Some(2) ELSE None]
    /\ EmissionValues \in [Netuids -> {Some(e) : e \in PruneEmissionInputs} \cup {None}]
    /\ \A n \in Netuids : EmissionValues[n] = None <=> n >= TotalNetworks
    /\ Params =
           [p \in ParamNames |->
               [n \in Netuids |->
                   IF n < TotalNetworks /\ p \in DefaultedParams
                   THEN Some("default") ELSE None]]
    /\ Tables = [t \in TableNames |-> {}]
    /\ NetworkConnect = [e \in Edges |-> None]
    /\ NetworkRegisteredAt \in
           [Netuids -> {Some(b) : b \in RegisteredAtInputs} \cup {None}]
    /\ \A n \in Netuids : n >= TotalNetworks => NetworkRegisteredAt[n] = None
    /\ SubnetOwner =
           [n \in Netuids |->
               IF NetworkRegisteredAt[n] = None THEN None ELSE Some(Registrant(n))]
    /\ SubnetLocked =
           [n \in Netuids |-> IF NetworkRegisteredAt[n] = None THEN 0 ELSE 1]
    /\ balances =
           [a \in Accounts |->
               IF a \in Coldkeys
               THEN InitialBalance
                        - Cardinality({n \in Netuids :
                              NetworkRegisteredAt[n] # None /\ Registrant(n) = a})
               ELSE 0]
    /\ current_block = PruneBlock
    /\ events = <<>>
    /\ lastCall = [op |-> "none", result |-> "Ok"]
    /\ history = NoHistory

NextPrune == GetSubnetToPrune

SpecPrune == InitPrune /\ [][NextPrune]_vars

\* The pruning query asked of registries that creations with any netuid,
\* removals and emission batches have built; the reply kept is the one to a
\* query of the current registry, a call that follows discards it.
NextRegistryPrune ==
    \/ AddNetwork({100}, {2}) /\ pruned' = None
           /\ UNCHANGED <<history, pricing, ledger, burn_costs, delegate_reply,
                         snapshot_run, ledger_seen>>
    \/ RemoveNetwork /\ pruned' = None
           /\ UNCHANGED <<history, pricing, ledger, burn_costs, delegate_reply,
                         snapshot_run, ledger_seen>>
    \/ SetEmissionValues /\ pruned' = None
           /\ UNCHANGED <<history, pricing, ledger, burn_costs, delegate_reply,
                         snapshot_run, ledger_seen>>
    \/ GetSubnetToPrune

SpecRegistryPrune == Init /\ [][NextRegistryPrune]_vars

TakeInputs == {1}

StakeInputs == 0..U64Max

\* A stake ledger: each hotkey has an owner, some hotkeys are delegates, and
\* under a (hotkey, coldkey) pair there is no entry, an entry without stake
\* or an entry with stake; all stake together is within the total issuance,
\* a u64.
InitDelegate ==
    /\ InitRegistry /\ InitPricing /\ InitReplies
    /\ current_block = 0
    /\ Delegates \in [Hotkeys -> {Some(t) : t \in TakeInputs} \cup {None}]
    /\ Owner \in [Hotkeys -> {Some(c) : c \in Coldkeys}]
    /\ Stake \in [StakeKeys -> {Some(a) : a \in StakeInputs} \cup {None}]
    /\ TotalStaked(Stake, StakeKeys) <= U64Max
    /\ Neurons = [k \in NeuronKeys |-> None]

\* The read-only delegate queries.
NextDelegate ==
    \/ GetDelegate
    \/ GetDelegated
    \/ GetTotalDelegatedStake

SpecDelegate == InitDelegate /\ [][NextDelegate]_vars

ReturnTempoInputs == {0, 100}

NeuronEmissionInputs == {0, 10, 25}

ReturnStakeInputs == {0, StakeUnit}

\* Every subnetwork live, each created with a tempo (0 is a valid tempo);
\* hk1 is a delegate with stake from the coldkeys and with a neuron slot,
\* with or without validator permit and with some emission, on some of the
\* subnetworks.
InitReturns ==
    /\ InitPricing /\ InitReplies
    /\ current_block = 0
    /\ TotalNetworks = MaxNetuid + 1
    /\ NetworksAdded = [n \in Netuids |-> Some(TRUE)]
    /\ Tempo \in [Netuids -> {Some(t) : t \in ReturnTempoInputs}]
    /\ NetworkModality = [n \in Netuids |-> Some(2)]
    /\ EmissionValues = [n \in Netuids |-> Some(DefaultEmissionValues)]
    /\ Params =
           [p \in ParamNames |->
               [n \in Netuids |-> IF p \in DefaultedParams THEN Some("default") ELSE None]]
    /\ NetworkConnect = [e \in Edges |-> None]
    /\ SubnetOwner = [n \in Netuids |-> None]
    /\ SubnetLocked = [n \in Netuids |-> 0]
    /\ NetworkRegisteredAt = [n \in Netuids |-> None]
    /\ balances = [a \in Accounts |-> IF a \in Coldkeys THEN InitialBalance ELSE 0]
    /\ events = <<>>
    /\ lastCall = [op |-> "none", result |-> "Ok"]
    /\ history = NoHistory
    /\ Delegates = [h \in Hotkeys |-> IF h = "hk1" THEN Some(1) ELSE None]
    /\ Owner = [h \in Hotkeys |-> Some("ck1")]
    /\ Stake \in [StakeKeys -> {Some(a) : a \in ReturnStakeInputs} \cup {None}]
    /\ \A k \in StakeKeys : k[1] # "hk1" => Stake[k] = None
    /\ Neurons \in
           [NeuronKeys ->
               {Some([permit |-> b, emission |-> e]) :
                    b \in BOOLEAN, e \in NeuronEmissionInputs} \cup {None}]
    /\ \A k \in NeuronKeys : k[2] # "hk1" => Neurons[k] = None
    /\ SubnetworkN =
           [n \in Netuids |->
               Some(Cardinality({h \in Hotkeys : Neurons[<<n, h>>] # None}))]
    /\ Tables =
           [t \in TableNames |->
               {n \in Netuids : \E h \in Hotkeys : Neurons[<<n, h>>] # None}]

NextReturns == GetDelegate

SpecReturns == InitReturns /\ [][NextReturns]_vars

\* A ledger where hk1 is a delegate with a neuron on every subnetwork, each
\* of tempo 100, and with stake from ck1.
InitSnapshot ==
    /\ InitReturns
    /\ \A n \in Netuids : Tempo[n] = Some(100) /\ Neurons[<<n, "hk1">>] # None
    /\ Neurons[<<0, "hk1">>][1].permit
    /\ Stake[<<"hk1", "ck1">>] = Some(StakeUnit)
    /\ Stake[<<"hk1", "ck2">>] \in {None, Some(0)}

\* The reads of a snapshot, with mutations of the ledger before and between
\* them.
NextSnapshot ==
    \/ SnapshotStart
    \/ SnapshotReadNominators
    \/ SnapshotReadRegistrations
    \/ SnapshotReadNetwork
    \/ SnapshotReadOwner
    \/ SnapshotReadTake
    \/ SnapshotReadTotalStake
    \/ SnapshotBuild
    \/ AddStake
    \/ RemoveStake
    \/ SetNeuronEmission({10, 25})
    \/ DecreaseTake

SpecSnapshot == InitSnapshot /\ [][NextSnapshot]_vars

\* ------------------------------------------------------------------ properties

Live(n) == NetworksAdded[n] = Some(TRUE)

LiveNetuids == {n \in Netuids : Live(n)}

Returned(op, result) == lastCall = [op |-> op, result |-> result]

\* The step is a removal call on n that returned Ok.
RemovalStep(n) ==
    /\ lastCall'.op \in {"do_remove_network", "user_remove_network"}
    /\ \E o \in Origins : do_remove_network(o, n) \/ user_remove_network(o, n)
    /\ lastCall'.result = "Ok"

\* The step credits the owner of n with the locked balance of n, zeroes that
\* locked balance and moves no other balance.
Refunded(n) ==
    /\ balances' =
           [balances EXCEPT ![Get(SubnetOwner, n, DefaultAccount)] = @ + SubnetLocked[n]]
    /\ SubnetLocked'[n] = 0

\* No per-netuid store holds an entry under n.
NoDerivedEntries(n) ==
    /\ \A t \in TableNames : n \notin Tables[t]
    /\ Tempo[n] = None
    /\ EmissionValues[n] = None
    /\ \A p \in ParamNames : Params[p][n] = None

\* None of the stores a creation writes holds an entry under n.
NoCreatedEntries(n) ==
    /\ NetworksAdded[n] = None
    /\ SubnetworkN[n] = None
    /\ Tempo[n] = None
    /\ NetworkModality[n] = None
    /\ EmissionValues[n] = None
    /\ \A p \in DefaultedParams : Params[p][n] = None

\* C1: in every state reached through the administrative operations, successful
\* or failing, TotalNetworks is the number of netuids whose existence flag is
\* set (so the u16 counter never wrapped below zero).
C1_TotalNetworksCountsLive == TotalNetworks = Cardinality(LiveNetuids)

\* a removal has taken one of two subnetworks away
C1_Witness ==
    /\ Returned("do_remove_network", "Ok")
    /\ TotalNetworks = 1
    /\ \E n \in Netuids : ~Live(n) /\ events = <<<<"NetworkRemoved", n>>>>

\* C2 as stated: every successful removal call on a live netuid credits the
\* owner with the locked balance, zeroes it and moves no other balance.
C2_EveryRemovalRefunds ==
    [][\A n \in Netuids : (Live(n) /\ RemovalStep(n)) => Refunded(n)]_vars

\* C2, amended: a removal call on a live netuid whose locked balance the
\* balance type can hold credits the owner at the time of removal with exactly
\* the locked balance, zeroes the locked balance and moves no other balance.
C2_RepresentableRemovalRefunds ==
    [][\A n \in Netuids :
          (Live(n) /\ SubnetLocked[n] <= BalanceMax /\ RemovalStep(n))
              => Refunded(n)]_vars

\* a removal has paid a locked balance to an owner who now holds more than
\* the initial balance (the owner by transfer, not the account that locked)
C2_Witness ==
    /\ lastCall.op \in {"do_remove_network", "user_remove_network"}
    /\ lastCall.result = "Ok"
    /\ \E n \in Netuids : ~Live(n) /\ events = <<<<"NetworkRemoved", n>>>>
    /\ \E a \in Coldkeys : balances[a] > InitialBalance

C4_RemovalErasesEverything ==
    \A n \in Netuids :
        (events = <<<<"NetworkRemoved", n>>>> /\ ~Live(n)) => NoDerivedEntries(n)

\* C5 as stated: every stored connection requirement has both endpoints live.
C5_EdgesBetweenLive ==
    \A e \in Edges : NetworkConnect[e] # None => Live(e[1]) /\ Live(e[2])

\* C6: a creation call from Root fails with NetworkExist when netuid is live;
\* for an absent netuid it fails with InvalidModality when modality is not in
\* {0,1,2}, else with InvalidTempo when tempo is u16::MAX, and succeeds in
\* every other case.
C6_CreateErrors ==
    [][\A n \in Netuids, t \in TempoInputs, m \in ModalityInputs :
          (lastCall'.op = "do_add_network" /\ do_add_network("Root", n, t, m)) =>
              lastCall'.result =
                  IF Live(n) THEN "NetworkExist"
                  ELSE IF m \notin {0, 1, 2} THEN "InvalidModality"
                  ELSE IF t = U16Max THEN "InvalidTempo"
                  ELSE "Ok"]_vars

\* a creation has been refused for its tempo while a subnetwork is live
C6_Witness == Returned("do_add_network", "InvalidTempo") /\ TotalNetworks = 1

\* C7 as stated: a successful creation leaves netuid live with neuron count 0,
\* the tempo and modality of the call, TotalNetworks one higher, and an entry
\* holding the default for every hyperparameter.
C7_CreateStoresEveryDefault ==
    [][\A n \in Netuids, t \in TempoInputs, m \in ModalityInputs :
          (/\ lastCall'.op = "do_add_network"
           /\ lastCall'.result = "Ok"
           /\ do_add_network("Root", n, t, m)) =>
              /\ NetworksAdded'[n] = Some(TRUE)
              /\ SubnetworkN'[n] = Some(0)
              /\ Tempo'[n] = Some(t)
              /\ NetworkModality'[n] = Some(m)
              /\ TotalNetworks' = TotalNetworks + 1
              /\ EmissionValues'[n] = Some(DefaultEmissionValues)
              /\ \A p \in ParamNames : Params'[p][n] = Some("default")]_vars

\* C8: a call that returns an error leaves every store, counter and balance
\* as it was and deposits no event.
C8_ErrorsChangeNothing ==
    [][lastCall'.result # "Ok" => (UNCHANGED stores /\ events' = <<>>)]_vars

\* an emission batch has been refused while subnetworks are live
C8_Witness ==
    /\ Returned("do_set_emission_values", "InvalidEmissionValues")
    /\ TotalNetworks = 2

\* C9: a setEmissionValues call from Root succeeds exactly when the two lists
\* have one length, that length is TotalNetworks, no id repeats, every id is
\* live, and the emission sum fits u64 and equals the block emission.
C9_EmissionValuesRejected ==
    [][\A ns \in NetuidLists, es \in EmissionLists :
          (/\ lastCall'.op = "do_set_emission_values"
           /\ do_set_emission_values("Root", ns, es)) =>
              (lastCall'.result = "Ok" <=>
                  /\ Len(ns) = Len(es)
                  /\ Len(ns) = TotalNetworks
                  /\ Cardinality({ns[i] : i \in 1..Len(ns)}) = Len(ns)
                  /\ \A i \in 1..Len(ns) : Live(ns[i])
                  /\ SumSeq(es) <= U64Max
                  /\ SumSeq(es) = BlockEmission)]_vars

\* an emission batch over two subnetworks has been accepted
C9_Witness == Returned("do_set_emission_values", "Ok") /\ TotalNetworks = 2

C11_AddRequirementErrors ==
    [][/\ \A a \in Netuids, b \in Netuids, r \in RequirementInputs :
              (/\ lastCall'.op = "do_sudo_add_network_connection_requirement"
               /\ do_sudo_add_network_connection_requirement("Root", a, b, r)) =>
                  IF a = b
                  THEN /\ lastCall'.result = "InvalidConnectionRequirement"
                       /\ UNCHANGED NetworkConnect
                  ELSE IF ~Live(a) \/ ~Live(b)
                  THEN /\ lastCall'.result = "NetworkDoesNotExist"
                       /\ UNCHANGED NetworkConnect
                  ELSE /\ lastCall'.result = "Ok"
                       /\ NetworkConnect' =
                              [NetworkConnect EXCEPT ![<<a, b>>] = Some(r)]
       /\ \A n \in Netuids : NetworkConnect'[<<n, n>>] = None]_vars

\* a self-loop has been refused on a live subnetwork that already has an edge
C11_Witness ==
    /\ Returned("do_sudo_add_network_connection_requirement",
                "InvalidConnectionRequirement")
    /\ \E a \in Netuids, b \in Netuids :
           a # b /\ Live(a) /\ Live(b) /\ NetworkConnect[<<a, b>>] = Some(1)

\* C12 as stated: a removeConnectionRequirement call from Root fails with
\* NetworkDoesNotExist when a or b is not live and with
\* InvalidConnectionRequirement when a = b (with either of the two when both
\* conditions hold).
C12_RemoveRequirementErrors ==
    [][\A a \in Netuids, b \in Netuids :
          (/\ lastCall'.op = "do_sudo_remove_network_connection_requirement"
           /\ do_sudo_remove_network_connection_requirement("Root", a, b)) =>
              /\ (a # b /\ (~Live(a) \/ ~Live(b))) =>
                     lastCall'.result = "NetworkDoesNotExist"
              /\ (a = b /\ Live(a)) =>
                     lastCall'.result = "InvalidConnectionRequirement"
              /\ (a = b /\ ~Live(a)) =>
                     lastCall'.result \in
                         {"InvalidConnectionRequirement", "NetworkDoesNotExist"}]_vars

\* C13: a removal call on a live netuid whose locked balance the balance type
\* cannot hold changes nothing: the subnetwork stays live with the same owner
\* and locked balance, TotalNetworks and every per-netuid entry are as before,
\* and no balance moves.
C13_UnrepresentableRemovalIsNoOp ==
    [][\A n \in Netuids :
          (Live(n) /\ SubnetLocked[n] > BalanceMax /\ RemovalStep(n)) =>
              /\ Live(n)'
              /\ SubnetOwner'[n] = SubnetOwner[n]
              /\ SubnetLocked'[n] = SubnetLocked[n]
              /\ UNCHANGED stores]_vars

\* a removal call has returned on a subnetwork that is still live and still
\* holds a locked balance beyond the balance type
C13_Witness ==
    /\ lastCall.op \in {"do_remove_network", "user_remove_network"}
    /\ lastCall.result = "Ok"
    /\ \E n \in Netuids :
           /\ events = <<<<"NetworkRemoved", n>>>>
           /\ Live(n)
           /\ SubnetLocked[n] > BalanceMax
           /\ SubnetOwner[n] # None

\* The burn cost as the pricing rule states it on numbers, floored at the
\* minimum burn: max(min_burn, last_burn * mult - decay).
ExpectedBurnCost(block) ==
    LET stepped == burn_stepped_up
        decay == (NetworkLastBurnCost \div (8 * DAYS)) * (block - NetworkLastRegistered)
    IN  IF stepped - decay < NetworkMinBurnCost THEN NetworkMinBurnCost
        ELSE stepped - decay

\* C14 as stated: with the pricing state fixed (and a stepped-up burn that fits
\* the u64), of two burn cost queries the later one, at the same or a later
\* block, returns no more than the earlier one, and no query returns less
\* than the minimum burn.
C14_BurnCostNeverRises ==
    burn_stepped_up <= PriceMax =>
        /\ \A i \in 1..Len(burn_costs) :
               ~burn_costs[i].panicked /\ burn_costs[i].cost >= NetworkMinBurnCost
        /\ Len(burn_costs) = 2 => burn_costs[2].cost <= burn_costs[1].cost

\* C20 as stated: a burn cost query returns max(min_burn, last_burn * m -
\* (last_burn / 57600) * (current_block - last_burn_block)), m = 1 when
\* last_burn_block = 0 and 2 otherwise, computed without wrap-around: it does
\* not panic, it returns min_burn when the decay exceeds the stepped-up burn,
\* and the formula's value whenever the stepped-up burn fits the u64.
C20_BurnCostClamped ==
    \A i \in 1..Len(burn_costs) :
        /\ ~burn_costs[i].panicked
        /\ burn_stepped_up <= PriceMax =>
               burn_costs[i].cost = ExpectedBurnCost(burn_costs[i].block)

\* The subnetwork registered less than an immunity period ago.
InImmunity(n) ==
    current_block - Get(NetworkRegisteredAt, n, 0) < NetworkImmunityPeriod

NonImmuneNetuids == {n \in LiveNetuids : ~InImmunity(n)}

ImmuneNetuids == {n \in LiveNetuids : InImmunity(n)}

\* n has the least emission value among the netuids of S
MinEmissionIn(n, S) ==
    /\ n \in S
    /\ \A m \in S :
           Get(EmissionValues, n, DefaultEmissionValues)
               <= Get(EmissionValues, m, DefaultEmissionValues)

\* C15 as stated: when some live subnetwork is outside its immunity period,
\* get_subnet_to_prune returns a non-immune subnetwork of least emission among
\* the non-immune ones; when all live subnetworks are immune it returns an
\* immune subnetwork of least emission.
C15_PrunesNonImmuneMinimum ==
    pruned # None =>
        /\ NonImmuneNetuids # {} => MinEmissionIn(pruned[1], NonImmuneNetuids)
        /\ (NonImmuneNetuids = {} /\ ImmuneNetuids # {}) =>
               MinEmissionIn(pruned[1], ImmuneNetuids)

\* The step is a call by the signed account o of one of the calls that ask
\* for Root: creation, administrative removal, adding or removing a connection
\* requirement, the emission batch.
RootOnlyCallBy(o) ==
    \/ /\ lastCall'.op = "do_add_network"
       /\ \E n \in Netuids, t \in TempoInputs, m \in ModalityInputs :
              do_add_network(o, n, t, m)
    \/ /\ lastCall'.op = "do_remove_network"
       /\ \E n \in Netuids : do_remove_network(o, n)
    \/ /\ lastCall'.op = "do_sudo_add_network_connection_requirement"
       /\ \E a \in Netuids, b \in Netuids, r \in RequirementInputs :
              do_sudo_add_network_connection_requirement(o, a, b, r)
    \/ /\ lastCall'.op = "do_sudo_remove_network_connection_requirement"
       /\ \E a \in Netuids, b \in Netuids :
              do_sudo_remove_network_connection_requirement(o, a, b)
    \/ /\ lastCall'.op = "do_set_emission_values"
       /\ do_set_emission_values(o, <<>>, <<>>)

\* A transfer call by o has an effect only when o owns the subnetwork.
TransferOnlyByOwner(o) ==
    \A n \in Netuids, d \in Coldkeys :
        (/\ lastCall'.op = "network_transfer_ownership"
         /\ network_transfer_ownership(o, n, d)) =>
            (UNCHANGED stores \/ (Live(n) /\ SubnetOwner[n] = Some(o)))

\* C16 as stated: no call by a non-root caller creates or removes a
\* subnetwork, adds or removes a connection requirement or sets emission
\* values; of the calls a non-root caller makes only transferOwnership has an
\* effect, and only for the owner.
C16_OnlyRootChangesRegistry ==
    [][\A o \in Coldkeys :
          /\ RootOnlyCallBy(o) => UNCHANGED stores
          /\ \A n \in Netuids :
                 (/\ lastCall'.op = "user_remove_network"
                  /\ user_remove_network(o, n)) => UNCHANGED stores
          /\ TransferOnlyByOwner(o)]_vars

\* C16, amended: a call by a non-root caller of the creation, of the
\* administrative removal, of adding or removing a connection requirement or
\* of the emission batch fails with BadOrigin and changes nothing; the owner's
\* removal (user_remove_network) and transferOwnership have an effect for a
\* non-root caller only when the caller owns the live subnetwork.
C16_NonRootOnlyAsOwner ==
    [][\A o \in Coldkeys :
          /\ RootOnlyCallBy(o) =>
                 (lastCall'.result = "BadOrigin" /\ UNCHANGED stores)
          /\ \A n \in Netuids :
                 (/\ lastCall'.op = "user_remove_network"
                  /\ user_remove_network(o, n)) =>
                     (UNCHANGED stores \/ (Live(n) /\ SubnetOwner[n] = Some(o)))
          /\ TransferOnlyByOwner(o)]_vars

\* the owner, no Root, has removed its subnetwork while another one is live
C16_Witness ==
    /\ Returned("user_remove_network", "Ok")
    /\ TotalNetworks = 1
    /\ \E n \in Netuids : ~Live(n) /\ events = <<<<"NetworkRemoved", n>>>>

Asked(query) == delegate_reply.query = query

\* The set of the elements of a sequence.
Elements(seq) == {seq[i] : i \in 1..Len(seq)}

\* The (nominator, stake) entries of the ledger under delegate d that hold
\* stake.
StakedEntries(d) ==
    {<<c, Stake[<<d, c>>][1]>> :
        c \in {x \in Coldkeys : Stake[<<d, x>>] # None /\ Stake[<<d, x>>][1] > 0}}

RegisteredDelegates == {h \in Hotkeys : Delegates[h] # None}

\* C17: get_delegate returns absent when the bytes are not 32 or encode no
\* account, and when the account is not registered as a delegate; for the 32
\* bytes of a registered delegate it returns a snapshot of that delegate.
C17_SnapshotAbsentOrDelegate ==
    Asked("get_delegate") =>
        LET v == delegate_reply.arg
            malformed == v.len # 32 \/ v.content = "garbage"
        IN  IF malformed \/ v.content \notin RegisteredDelegates
            THEN delegate_reply.value = None
            ELSE /\ delegate_reply.value # None
                 /\ delegate_reply.value[1].delegate_ss58 = v.content
                 /\ delegate_reply.value[1].owner_ss58 = Owner[v.content][1]

\* 33 bytes that begin with a registered delegate's account have been refused
C17_Witness ==
    /\ Asked("get_delegate")
    /\ delegate_reply.arg.len = 33
    /\ delegate_reply.arg.content \in RegisteredDelegates
    /\ delegate_reply.value = None

\* C18: the nominator list of a snapshot of d holds exactly the ledger entries
\* of d with stake > 0, each once; get_delegated for staker s holds exactly
\* the registered delegates towards which s has stake > 0, each once, with
\* that stake and with the delegate's snapshot.
C18_ZeroStakeNeverSurfaced ==
    /\ (Asked("get_delegate") /\ delegate_reply.value # None) =>
           LET info == delegate_reply.value[1]
           IN  /\ Elements(info.nominators) = StakedEntries(info.delegate_ss58)
               /\ Len(info.nominators) = Cardinality(StakedEntries(info.delegate_ss58))
    /\ (Asked("get_delegated") /\ decode(delegate_reply.arg) # None) =>
           LET staker == delegate_reply.arg.content
               listed == delegate_reply.value
               expected ==
                   {d \in RegisteredDelegates :
                       /\ staker \in Coldkeys
                       /\ Stake[<<d, staker>>] # None
                       /\ Stake[<<d, staker>>][1] > 0}
           IN  /\ {e[1].delegate_ss58 : e \in Elements(listed)} = expected
               /\ Len(listed) = Cardinality(expected)
               /\ \A e \in Elements(listed) :
                      /\ e[2] = Stake[<<e[1].delegate_ss58, staker>>][1]
                      /\ Elements(e[1].nominators) = StakedEntries(e[1].delegate_ss58)

\* a snapshot with a nominator has been returned for a delegate that also has
\* a ledger entry without stake
C18_Witness ==
    /\ Asked("get_delegate")
    /\ delegate_reply.value # None
    /\ Len(delegate_reply.value[1].nominators) = 1
    /\ \E c \in Coldkeys : Stake[<<delegate_reply.arg.content, c>>] = Some(0)

\* The stake towards d of the coldkeys other than the owner of d, added up.
RECURSIVE StakeOfOthers(_, _)
StakeOfOthers(d, coldkeys) ==
    IF coldkeys = {} THEN 0
    ELSE LET c == CHOOSE x \in coldkeys : TRUE
         IN  (IF Owner[d] = Some(c) \/ Stake[<<d, c>>] = None THEN 0
              ELSE Stake[<<d, c>>][1])
                 + StakeOfOthers(d, coldkeys \ {c})

\* C19: get_total_delegated_stake of a registered delegate is the sum of the
\* stakes of its nominators other than its owner, and is 0 for an account
\* that is not a registered delegate.
C19_TotalExcludesOwner ==
    Asked("get_total_delegated_stake") =>
        delegate_reply.value =
            IF delegate_reply.arg \in RegisteredDelegates
            THEN StakeOfOthers(delegate_reply.arg, Coldkeys)
            ELSE 0

\* the owner stakes 2 and one nominator stakes 1: the total is 1
C19_Witness ==
    /\ Asked("get_total_delegated_stake")
    /\ delegate_reply.arg \in RegisteredDelegates
    /\ delegate_reply.value = 1
    /\ \E o \in Coldkeys, c \in Coldkeys :
           /\ o # c
           /\ Owner[delegate_reply.arg] = Some(o)
           /\ Stake[<<delegate_reply.arg, o>>] = Some(2)
           /\ Stake[<<delegate_reply.arg, c>>] = Some(1)

\* The blocks since the latest registration at the time of a burn cost query.
ElapsedAt(i) == burn_costs[i].block - NetworkLastRegistered

\* The block count after which the linear decay of the pricing rule has used
\* up the stepped-up burn: 8 days, twice that after a step-up.
DecayedAfter == (IF NetworkLastRegistered = 0 THEN 1 ELSE 2) * 8 * DAYS

\* C21 as stated: with no new registration the burn cost decays to the
\* minimum burn and stays there, for every last burn: a query made once the
\* decay has used up the stepped-up burn returns the minimum burn, and after
\* a query that returned the minimum burn every later query returns it too.
C21_BurnCostSettlesAtMinimum ==
    burn_stepped_up <= PriceMax =>
        /\ \A i \in 1..Len(burn_costs) :
               ElapsedAt(i) >= DecayedAfter =>
                   (~burn_costs[i].panicked
                        /\ burn_costs[i].cost = NetworkMinBurnCost)
        /\ (/\ Len(burn_costs) = 2
            /\ ~burn_costs[1].panicked
            /\ burn_costs[1].cost = NetworkMinBurnCost) =>
               (~burn_costs[2].panicked /\ burn_costs[2].cost = NetworkMinBurnCost)


\* The class get_subnet_to_prune chooses from: the non-immune live
\* subnetworks if there is one, else the immune ones.
ReturnedClass ==
    IF NonImmuneNetuids # {} THEN NonImmuneNetuids ELSE ImmuneNetuids

\* the candidates of the returned class that share its minimum emission
TiedCandidates == {n \in ReturnedClass : MinEmissionIn(n, ReturnedClass)}

\* C22 as stated: when several candidates of the returned class share the
\* minimum emission, get_subnet_to_prune returns the one with the lowest
\* netuid.
C22_TieGoesToLowestNetuid ==
    (pruned # None /\ Cardinality(TiedCandidates) >= 2) =>
        /\ pruned[1] \in TiedCandidates
        /\ \A n \in TiedCandidates : pruned[1] <= n


\* C23 as stated: whenever at least one subnetwork is live,
\* get_subnet_to_prune returns the netuid of a live subnetwork, whatever
\* creations with arbitrary netuids and removals left live.
C23_PrunedIsLive ==
    (pruned # None /\ LiveNetuids # {}) => pruned[1] \in LiveNetuids


\* The emission values E, added up over the netuids 0 .. k that A holds live.
RECURSIVE LiveEmissionSum(_, _, _)
LiveEmissionSum(E, A, k) ==
    IF k < 0 THEN 0
    ELSE (IF A[k] = Some(TRUE) THEN Get(E, k, DefaultEmissionValues) ELSE 0)
             + LiveEmissionSum(E, A, k - 1)

\* C24: right after a successful do_set_emission_values(netuids, emission)
\* the stored emission of each listed netuid is the value at the same
\* position of emission, every live subnetwork is in the list, and the stored
\* emission values of the live subnetworks add up to the block emission.
C24_BatchStoredAndSumsToBlockEmission ==
    [][\A ns \in NetuidLists, es \in EmissionLists :
          (/\ lastCall'.op = "do_set_emission_values"
           /\ lastCall'.result = "Ok"
           /\ do_set_emission_values("Root", ns, es)) =>
              /\ \A i \in 1..Len(ns) : EmissionValues'[ns[i]] = Some(es[i])
              /\ \A n \in Netuids :
                     NetworksAdded'[n] = Some(TRUE) =>
                         \E i \in 1..Len(ns) : ns[i] = n
              /\ LiveEmissionSum(EmissionValues', NetworksAdded', MaxNetuid)
                     = get_block_emission]_vars

\* an accepted batch over two subnetworks gave the whole block emission to
\* netuid 1 and nothing to netuid 0
C24_Witness ==
    /\ Returned("do_set_emission_values", "Ok")
    /\ LiveNetuids = {0, 1}
    /\ EmissionValues[0] = Some(0)
    /\ EmissionValues[1] = Some(BlockEmission)


\* C25 as stated: a removal call returns Ok with the NetworkRemoved(netuid)
\* event only if netuid is not live after the call; no NetworkRemoved event
\* follows the no-op path of remove_network.
C25_RemovedEventMeansNotLive ==
    \A n \in Netuids :
        (/\ lastCall.op \in {"do_remove_network", "user_remove_network"}
         /\ lastCall.result = "Ok"
         /\ events = <<<<"NetworkRemoved", n>>>>) => ~Live(n)


\* C26 as stated: a call of init_new_network_ex (and of init_new_network in
\* it) on a registry whose TotalNetworks is the number of live netuids leaves
\* a registry where it is so too, whatever the netuid, a live one included.
C26_InitKeepsCountOfLive ==
    [][(/\ lastCall'.op = "init_new_network_ex"
        /\ InitNetworkEx({100}, {2})
        /\ TotalNetworks = Cardinality(LiveNetuids)) =>
           TotalNetworks' = Cardinality(LiveNetuids')]_vars


RECURSIVE Gcd(_, _)
Gcd(a, b) == IF b = 0 THEN a ELSE Gcd(b, a % b)

\* The subnetworks d has a neuron on whose tempo is above 0.
PayingNetuids(d) ==
    {n \in Netuids : Neurons[<<n, d>>] # None /\ Get(Tempo, n, DefaultTempo) > 0}

\* The least common multiple of the tempos of the netuids of S.
RECURSIVE TempoLcm(_)
TempoLcm(S) ==
    IF S = {} THEN 1
    ELSE LET n == CHOOSE x \in S : TRUE
             rest == TempoLcm(S \ {n})
             tempo == Get(Tempo, n, DefaultTempo)
         IN  (rest \div Gcd(rest, tempo)) * tempo

\* scale times the sum over the netuids of S of emission * (7200 / tempo),
\* for a scale that every tempo divides
RECURSIVE DailyReturnTimes(_, _, _)
DailyReturnTimes(d, S, scale) ==
    IF S = {} THEN 0
    ELSE LET n == CHOOSE x \in S : TRUE
         IN  Neurons[<<n, d>>][1].emission * BlocksPerDay
                     * (scale \div Get(Tempo, n, DefaultTempo))
                 + DailyReturnTimes(d, S \ {n}, scale)

\* C28 as stated, the figures being the integer parts of the quantities:
\* total_daily_return of a snapshot is the sum over the subnetworks the
\* delegate is registered on with tempo > 0 of emission * (7200 / tempo), and
\* return_per_1000 is that sum * 0.82 / (total stake / 1000) when the total
\* stake is above 0, and 0 otherwise.
C28_ReturnFigures ==
    (Asked("get_delegate") /\ delegate_reply.value # None) =>
        LET info == delegate_reply.value[1]
            d == info.delegate_ss58
            scale == TempoLcm(PayingNetuids(d))
            daily == DailyReturnTimes(d, PayingNetuids(d), scale)
            stake == get_total_stake_for_hotkey(d)
        IN  /\ info.total_daily_return * scale <= daily
            /\ daily < (info.total_daily_return + 1) * scale
            /\ IF stake > 0
               THEN /\ info.return_per_1000 * stake * scale
                           <= daily * ReturnShareHundredths * (StakeUnit \div 100)
                    /\ daily * ReturnShareHundredths * (StakeUnit \div 100)
                           < (info.return_per_1000 + 1) * stake * scale
               ELSE info.return_per_1000 = 0


\* The daily emissions of the subnetworks 0 .. k added up, that of
\* subnetwork n as the recorded ledger daily[n] has it.
RECURSIVE SeenEmissionsPerDay(_, _)
SeenEmissionsPerDay(daily, k) ==
    IF k < 0 THEN from_num(0)
    ELSE saturating_add(SeenEmissionsPerDay(daily, k - 1),
                        daily[k].networks[k].emissions_per_day)

\* The snapshot the latest run returned.
SnapshotDone == snapshot_run.pc = "done" /\ delegate_reply.query = "snapshot"

====
